---- MODULE Spec2Model ----
(***************************************************************************)
(* Model of the Secret Verification & Risk Classification Engine of        *)
(* CredentialShield: the evidence parser                                   *)
(* (Api_Exposure_classifier.parse_secret_file), the command matcher        *)
(* (secret_verifier.extract_commands),                                     *)
(* the live verifier (json_report._verify_secret_type with                 *)
(* secret_verifier.run_command / verifier), the finding aggregator         *)
(* (json_report.build_json_report), the single-evidence check              *)
(* (secret_verifier.verify_secret_with_evidence) and the pipeline that     *)
(* feeds the classifier (run_complete_exposure_analysis with               *)
(* Exposure_Discovery.create_secret_dump and Api_Exposure_classifier.main).*)
(*                                                                         *)
(* Python str values that the code inspects character by character are     *)
(* sequences of one-character strings; opaque texts (exception messages,   *)
(* oracle answers) are TLA+ strings.                                       *)
(***************************************************************************)
EXTENDS Integers, Sequences, FiniteSets, TLC

(***************************************************************************)
(* Python string primitives over character sequences                       *)
(***************************************************************************)
UpperChars == <<"A","B","C","D","E","F","G","H","I","J","K","L","M",
                "N","O","P","Q","R","S","T","U","V","W","X","Y","Z">>
LowerChars == <<"a","b","c","d","e","f","g","h","i","j","k","l","m",
                "n","o","p","q","r","s","t","u","v","w","x","y","z">>
DigitChars == <<"0","1","2","3","4","5","6","7","8","9">>

Range(s) == {s[i] : i \in DOMAIN s}

MinOf(S) == CHOOSE i \in S : \A j \in S : i <= j

MaxOf(S) == CHOOSE i \in S : \A j \in S : i >= j

\* str.lower() of one character (ASCII letters).
LowerChar(c) ==
    IF \E i \in DOMAIN UpperChars : UpperChars[i] = c
    THEN LowerChars[CHOOSE i \in DOMAIN UpperChars : UpperChars[i] = c]
    ELSE c

\* str.lower()
lower(s) == [i \in DOMAIN s |-> LowerChar(s[i])]

\* s[p:].startswith(pat), p a 1-based position
StartsWithAt(s, p, pat) ==
    /\ p >= 1
    /\ p + Len(pat) - 1 <= Len(s)
    /\ \A j \in 1..Len(pat) : s[p + j - 1] = pat[j]

\* s.find(pat, p): the least position >= p where pat occurs, 0 when none
find(s, pat, p) ==
    LET last == Len(s) - Len(pat) + 1
    IN  IF \E i \in p..last : StartsWithAt(s, i, pat)
        THEN CHOOSE i \in p..last :
                 /\ StartsWithAt(s, i, pat)
                 /\ \A j \in p..(i - 1) : ~StartsWithAt(s, j, pat)
        ELSE 0

\* pat in s
contains(s, pat) ==
    \E i \in 1..(Len(s) - Len(pat) + 1) : StartsWithAt(s, i, pat)

\* variant of s[:n]: nothing is cut
TakeAll(s, n) == s

\* s[:n]
Take(s, n) == SubSeq(s, 1, IF n < Len(s) THEN n ELSE Len(s))

\* s[p:], p a 1-based position
Drop(s, p) == SubSeq(s, p, Len(s))

\* str.replace(old, new): every non-overlapping occurrence, left to right
RECURSIVE replace(_, _, _)
replace(s, old, new) ==
    LET i == find(s, old, 1)
    IN  IF i = 0 THEN s
        ELSE SubSeq(s, 1, i - 1) \o new \o replace(Drop(s, i + Len(old)), old, new)

\* str.split(sep): a sequence of character sequences
RECURSIVE split(_, _)
split(s, sep) ==
    LET i == find(s, sep, 1)
    IN  IF i = 0 THEN <<s>>
        ELSE <<SubSeq(s, 1, i - 1)>> \o split(Drop(s, i + Len(sep)), sep)

\* str.splitlines(): split at "\n", no empty last line after a final "\n"
\* (the model's alphabet has no other line boundary)
splitlines(s) ==
    IF s = <<>> THEN <<>>
    ELSE LET parts == split(s, <<"\n">>)
         IN  IF parts[Len(parts)] = <<>> THEN SubSeq(parts, 1, Len(parts) - 1)
             ELSE parts

\* "\n".join(lines)
RECURSIVE join(_)
join(lines) ==
    IF lines = <<>> THEN <<>>
    ELSE IF Len(lines) = 1 THEN lines[1]
    ELSE lines[1] \o <<"\n">> \o join(Tail(lines))

IsSpace(c) == c \in {" ", "\n", "\t"}

\* str.strip()
strip(s) ==
    LET keep == {i \in DOMAIN s : ~IsSpace(s[i])}
    IN  IF keep = {} THEN <<>> ELSE SubSeq(s, MinOf(keep), MaxOf(keep))

(***************************************************************************)
(* secret_verifier.py: normalize and extract_commands                      *)
(***************************************************************************)
IsLowerAlnum(c) == c \in Range(LowerChars) \cup Range(DigitChars)

\* re.sub(r"[^a-z0-9]+", "", s.lower())
normalize(s) == SelectSeq(lower(s), IsLowerAlnum)

\* re.sub(r"\[([^]]+)\].*", r"\1", s): the leftmost "[x]" with x non-empty
\* and free of "]" is replaced, with everything after it, by x.
sub_link(s) ==
    LET ok == {p \in DOMAIN s :
                  /\ s[p] = "["
                  /\ p + 1 <= Len(s)
                  /\ s[p + 1] # "]"
                  /\ find(s, <<"]">>, p + 1) # 0}
    IN  IF ok = {} THEN s
        ELSE LET p == MinOf(ok)
                 q == find(s, <<"]">>, p + 1)
             IN  SubSeq(s, 1, p - 1) \o SubSeq(s, p + 1, q - 1)

\* re.sub(r"\([^)]*\)$", "", s): a parenthesis that closes at the very end of
\* the string and holds no other ")" is removed, from its leftmost "(".
sub_paren(s) ==
    LET ok == {p \in DOMAIN s :
                  /\ s[p] = "("
                  /\ find(s, <<")">>, p + 1) = Len(s)}
    IN  IF ok = {} THEN s ELSE SubSeq(s, 1, MinOf(ok) - 1)

\* the section title of line 58
section_title(line0) == strip(sub_paren(sub_link(strip(line0))))

\* The backtick of a Markdown code fence. The parser cannot read a backtick
\* inside a string, so the model's documents write the fence character "~".
TICK == "~"

\* number of consecutive backticks of s from position p
RECURSIVE tick_run(_, _)
tick_run(s, p) ==
    IF p <= Len(s) /\ s[p] = TICK THEN 1 + tick_run(s, p + 1) ELSE 0

Ticks(k) == [i \in 1..k |-> TICK]

\* One match of the fence pattern of line 68 (three or more backticks,
\* lazy text to a newline, lazy group 2, newline, the same backticks;
\* DOTALL) starting at position p:
\* <<group 2, position after the match>>, or <<>> when there is none.
\* The opening run is greedy (longest first, at least 3), ".*?" runs to the
\* first newline, and group 2 ends at the first newline followed by the
\* same run of backticks.
fence_match(s, p) ==
    LET run  == tick_run(s, p)
        n1   == find(s, <<"\n">>, p + 3)
        closer(k) == {q \in (n1 + 1)..Len(s) :
                         s[q] = "\n" /\ StartsWithAt(s, q + 1, Ticks(k))}
        ks   == {k \in 3..run : n1 # 0 /\ n1 >= p + k /\ closer(k) # {}}
    IN  IF run < 3 \/ ks = {} THEN <<>>
        ELSE LET k == MaxOf(ks)
                 q == MinOf(closer(k))
             IN  <<SubSeq(s, n1 + 1, q - 1), q + k + 1>>

\* re.findall of the fence pattern: the group-2 texts, left to right
RECURSIVE code_blocks(_, _)
code_blocks(s, p) ==
    IF p > Len(s) THEN <<>>
    ELSE LET m == fence_match(s, p)
         IN  IF m = <<>> THEN code_blocks(s, p + 1)
             ELSE <<m[1]>> \o code_blocks(s, m[2])

S_curl == <<"c","u","r","l">>

\* lines 70-73: the curl lines of the fenced blocks, stripped
RECURSIVE block_lines(_)
block_lines(lines) ==
    IF lines = <<>> THEN <<>>
    ELSE (IF StartsWithAt(lower(strip(lines[1])), 1, S_curl)
          THEN <<strip(lines[1])>> ELSE <<>>) \o block_lines(Tail(lines))

RECURSIVE block_commands(_)
block_commands(blocks) ==
    IF blocks = <<>> THEN <<>>
    ELSE block_lines(splitlines(blocks[1])) \o block_commands(Tail(blocks))

\* re.findall(r"^curl[^\n\r]*$", body, MULTILINE | IGNORECASE): the lines of
\* body that begin, at column 0, with "curl" in any case
RECURSIVE inline_curls(_)
inline_curls(lines) ==
    IF lines = <<>> THEN <<>>
    ELSE (IF StartsWithAt(lower(lines[1]), 1, S_curl)
          THEN <<lines[1]>> ELSE <<>>) \o inline_curls(Tail(lines))

\* lines 78-80: an inline line is added unless already collected
RECURSIVE add_inline(_, _)
add_inline(commands, lines) ==
    IF lines = <<>> THEN commands
    ELSE add_inline(IF strip(lines[1]) \in Range(commands) THEN commands
                    ELSE Append(commands, strip(lines[1])),
                    Tail(lines))

\* variant of line 64: the title must equal the label
MatchNarrow(normalized_title, wanted) == normalized_title = wanted

\* line 64: bidirectional containment of the normalized title and label
title_matches(normalized_title, wanted) ==
    contains(wanted, normalized_title) \/ contains(normalized_title, wanted)

\* lines 54-80 for one section: the commands list after the section
section_commands(commands, sec, wanted) ==
    LET lines == splitlines(sec)
    IN  IF lines = <<>> THEN commands
        ELSE LET title == section_title(lines[1])
             IN  IF title = <<>> THEN commands
                 ELSE IF ~title_matches(normalize(title), wanted) THEN commands
                 ELSE LET body == join(Tail(lines))
                      IN  add_inline(
                              commands \o block_commands(code_blocks(body, 1)),
                              inline_curls(split(body, <<"\n">>)))

RECURSIVE scan_sections(_, _, _)
scan_sections(commands, sections, wanted) ==
    IF sections = <<>> THEN commands
    ELSE scan_sections(section_commands(commands, sections[1], wanted),
                       Tail(sections), wanted)

S_h2 == <<"#","#"," ">>

extract_commands(secret_type, md_text) ==
    scan_sections(<<>>, split(md_text, S_h2), normalize(secret_type))

(***************************************************************************)
(* secret_verifier.py: run_command                                         *)
(***************************************************************************)
S_your_token   == <<"<","y","o","u","r","_","t","o","k","e","n",">">>
S_API_KEY_HERE == <<"A","P","I","_","K","E","Y","_","H","E","R","E">>
S_TOKEN_HERE   == <<"T","O","K","E","N","_","H","E","R","E">>
S_dTOKEN       == <<"$","T","O","K","E","N">>
S_dAPI_KEY     == <<"$","A","P","I","_","K","E","Y">>
S_TOKEN        == <<"T","O","K","E","N">>

\* lines 201-208, in the dict's iteration order
replacements == <<S_your_token, S_API_KEY_HERE, S_TOKEN_HERE, S_dTOKEN,
                  S_dAPI_KEY, S_TOKEN>>

\* lines 210-211
RECURSIVE replace_all(_, _, _)
replace_all(cmd, placeholders, token) ==
    IF placeholders = <<>> THEN cmd
    ELSE replace_all(replace(cmd, placeholders[1], token), Tail(placeholders), token)

\* lines 197-211: the command after placeholder replacement ("if token:" is
\* false for the empty string)
substitute(cmd, token) ==
    IF token = <<>> THEN cmd ELSE replace_all(cmd, replacements, token)

\* shlex.split(cmd) of line 213 raises ValueError("No closing quotation")
\* when a quote is left open (alphabet without backslash escapes)
RECURSIVE open_quote(_, _)
open_quote(s, q) ==
    IF s = <<>> THEN q
    ELSE open_quote(Tail(s),
                    IF q = "" THEN (IF s[1] \in {"\"", "'"} THEN s[1] ELSE "")
                    ELSE IF s[1] = q THEN "" ELSE q)

shlex_raises(cmd) == open_quote(cmd, "") # ""

(***************************************************************************)
(* json_report.py: _verify_secret_type                                     *)
(***************************************************************************)
\* commands[:3], line 83
TemplateCap == 3

\* evidence_strings[:5], line 89
EvidenceCap == 5

\* evidence[:50], lines 120 and 134
EvidenceUsedLen == 50

\* out[:4000], err[:4000], lines 115-116
OutputLen == 4000

\* line 80
placeholder_terms == <<S_your_token, S_API_KEY_HERE, S_TOKEN, S_TOKEN_HERE>>

\* line 98: any(term in cmd for term in placeholder_terms)
has_placeholder(cmd) ==
    \E k \in DOMAIN placeholder_terms : contains(cmd, placeholder_terms[k])

failure_words == << <<"u","n","a","u","t","h","o","r","i","z","e","d">>,
                    <<"f","o","r","b","i","d","d","e","n">>,
                    <<"i","n","v","a","l","i","d">>,
                    <<"d","e","n","i","e","d">> >>

\* lines 103-104
looks_auth_error(out, err) ==
    LET combined == lower(out \o <<"\n">> \o err)
    IN  \E k \in DOMAIN failure_words : contains(combined, failure_words[k])

\* variant of line 105: the exit code alone decides
SuccessExitOnly(code, out, err) == code = 0

\* line 105
success_of(code, out, err) ==
    (code = 0) /\ ~looks_auth_error(out, err) /\ Len(strip(out)) > 0

S_dots == <<".",".",".">>

\* lines 120 and 134
evidence_used_of(evidence) ==
    IF Len(evidence) > EvidenceUsedLen
    THEN Take(evidence, EvidenceUsedLen) \o S_dots
    ELSE evidence

S_NoTokenCandidates == <<"N","o"," ","t","o","k","e","n"," ","c","a","n","d",
                         "i","d","a","t","e","s"," ","f","o","u","n","d">>

\* Python None
None == [none |-> TRUE]

\* lines 111-121
run_result(cmd, executed_cmd, code, out, err, st, an, evidence) ==
    [command |-> cmd, executed_command |-> executed_cmd, exit_code |-> code,
     stdout |-> Take(out, OutputLen), stderr |-> Take(err, OutputLen),
     success |-> success_of(code, out, err),
     ai_status |-> st, ai_analysis |-> an,
     evidence_used |-> evidence_used_of(evidence)]

\* lines 128-135
error_result(cmd, ex, st, an, evidence) ==
    [command |-> cmd, error |-> ex, success |-> FALSE,
     ai_status |-> st, ai_analysis |-> an,
     evidence_used |-> evidence_used_of(evidence)]

\* lines 145-151
guidance_result(cmd, st, an) ==
    [command |-> cmd, success |-> FALSE, ai_status |-> st, ai_analysis |-> an,
     evidence_used |-> S_NoTokenCandidates]

\* variant of line 124: a later success does not replace the first result
KeepFirstOnly(best, res) == IF best = None THEN res ELSE best

\* variant of line 124: every result replaces the one kept
KeepLast(best, res) == res

\* line 124: keep the first result, or the first successful one
keep_best(best, res) ==
    IF best = None \/ (res.success /\ ~best.success) THEN res ELSE best

\* variant of lines 140-141: the loop never breaks
NeverBreak(cv) == FALSE

\* lines 140-141: if cmd_verified: break
breaks_loop(cv) == cv

\* variant of lines 99-100: the flags are set once a subprocess has started
AttemptedWhenLaunched(launched) == launched

\* lines 99-100: the flags are set once the gate has passed, before the call
attempted_at_gate(launched) == TRUE

\* variant of lines 158-163: the two flags change places
NormalReturnSwapped(cmds, att, ver, res) ==
    [commands |-> Take(cmds, TemplateCap), attempted |-> ver, verified |-> att,
     results |-> res]

\* lines 158-163
normal_return(cmds, att, ver, res) ==
    [commands |-> Take(cmds, TemplateCap), attempted |-> att, verified |-> ver,
     results |-> res]

\* line 165
error_return(ex) ==
    [commands |-> <<>>, attempted |-> FALSE, verified |-> FALSE, error |-> ex,
     results |-> <<>>]

(***************************************************************************)
(* Api_Exposure_classifier.py: parse_secret_file                           *)
(***************************************************************************)
S_Unknown    == <<"U","n","k","n","o","w","n">>
S_url_prefix == <<"["," ","+"," ","]"," ","U","R","L",":">>
S_URL        == <<"U","R","L",":">>
S_arrow      == <<"-",">">>
S_colon      == <<":">>
S_slash      == <<"/">>
S_backslash  == <<"\\">>

\* s.split(sep, 1)[0], sep occurring in s
before_first(s, sep) == Take(s, find(s, sep, 1) - 1)

\* variant of s.split(sep, 1)[1]: the text after the last sep
AfterLastSep(s, sep) ==
    Drop(s, MaxOf({i \in DOMAIN s : StartsWithAt(s, i, sep)}) + Len(sep))

\* s.split(sep, 1)[1], sep occurring in s
after_first(s, sep) == Drop(s, find(s, sep, 1) + Len(sep))

\* s.split(sep)[-1], sep one character
last_part(s, sep) ==
    IF contains(s, sep)
    THEN Drop(s, MaxOf({i \in DOMAIN s : StartsWithAt(s, i, sep)}) + 1)
    ELSE s

\* s.split(ch, 1)[0] when ch occurs in s, else s
cut_at(s, ch) == IF contains(s, ch) THEN before_first(s, ch) ELSE s

\* urlsplit: tabs and line ends are removed from the url
unsafe_removed(url) == SelectSeq(url, LAMBDA c : c \notin {"\t", "\n", "\r"})

\* urllib.parse.scheme_chars
IsSchemeChar(c) ==
    c \in Range(LowerChars) \cup Range(UpperChars) \cup Range(DigitChars)
          \cup {"+", "-", "."}

\* urlsplit: the url starts with "<scheme>:"
has_scheme(url) ==
    LET i == find(url, S_colon, 1)
    IN  /\ i > 1
        /\ url[1] \in Range(LowerChars) \cup Range(UpperChars)
        /\ \A k \in 1..(i - 1) : IsSchemeChar(url[k])

scheme_of(url) ==
    IF has_scheme(url) THEN lower(before_first(url, S_colon)) ELSE <<>>

\* urlsplit: the url after "//<netloc>", if it has one
after_netloc(u) ==
    IF StartsWithAt(u, 1, <<"/", "/">>)
    THEN LET ds == {k \in 3..Len(u) : u[k] \in {"/", "?", "#"}}
         IN  IF ds = {} THEN <<>> ELSE Drop(u, MinOf(ds))
    ELSE u

\* urlsplit: the "<netloc>" of "//<netloc>", empty without "//"
netloc_of(u) ==
    IF StartsWithAt(u, 1, <<"/", "/">>)
    THEN LET ds == {k \in 3..Len(u) : u[k] \in {"/", "?", "#"}}
         IN  IF ds = {} THEN Drop(u, 3) ELSE SubSeq(u, 3, MinOf(ds) - 1)
    ELSE <<>>

\* urlsplit raises ValueError: a bracket in the netloc that does not
\* enclose an IPv6 literal (the model's texts hold no such literal)
urlparse_raises(url) ==
    LET rest == IF has_scheme(url) THEN after_first(url, S_colon) ELSE url
    IN  \E i \in DOMAIN netloc_of(rest) : netloc_of(rest)[i] \in {"[", "]"}

\* urllib.parse.uses_params, the schemes of the model's alphabet
uses_params == {<<>>, <<"h","t","t","p">>, <<"h","t","t","p","s">>, <<"f","t","p">>}

\* urllib.parse._splitparams(url)[0], ";" occurring in url
splitparams(url) ==
    IF contains(url, S_slash)
    THEN LET r == MaxOf({i \in DOMAIN url : url[i] = "/"})
             i == find(url, <<";">>, r)
         IN  IF i = 0 THEN url ELSE Take(url, i - 1)
    ELSE before_first(url, <<";">>)

\* urlparse(url).path, for urls without brackets
url_path(url) ==
    LET rest == IF has_scheme(url) THEN after_first(url, S_colon) ELSE url
        path == cut_at(cut_at(after_netloc(rest), <<"#">>), <<"?">>)
    IN  IF scheme_of(url) \in uses_params /\ contains(path, <<";">>)
        THEN splitparams(path)
        ELSE path

\* variant of line 42: the text of a URL line is dropped
UrlIgnored(line) == S_Unknown

\* line 42
url_of_line(line) == strip(after_first(line, S_URL))

\* lines 54-74
filename_of(evidence, current_url) ==
    IF contains(evidence, S_colon)
    THEN LET filename == before_first(evidence, S_colon)
         IN  IF contains(filename, S_slash) THEN last_part(filename, S_slash)
             ELSE IF contains(filename, S_backslash)
                  THEN last_part(filename, S_backslash)
                  ELSE filename
    ELSE IF current_url # S_Unknown
                /\ ~urlparse_raises(unsafe_removed(current_url))
         THEN LET path == url_path(unsafe_removed(current_url))
                  filename == IF path # <<>> THEN last_part(path, S_slash)
                              ELSE S_Unknown
              IN  IF filename = <<>> THEN S_Unknown ELSE filename
         ELSE S_Unknown

\* lines 76-80: secrets[secret_type].append(record), secrets a defaultdict
\* kept as <<key, list>> pairs in insertion order
add_record(items, key, rec) ==
    IF \E k \in DOMAIN items : items[k][1] = key
    THEN LET k == CHOOSE k \in DOMAIN items : items[k][1] = key
         IN  [items EXCEPT ![k] = <<key, Append(items[k][2], rec)>>]
    ELSE Append(items, <<key, <<rec>> >>)

\* lines 36-80: one line of the dump
parse_line(items, url, raw) ==
    LET line == strip(raw)
    IN  IF StartsWithAt(line, 1, S_url_prefix)
        THEN [secrets |-> items, current_url |-> url_of_line(line)]
        ELSE IF ~contains(line, S_arrow)
             THEN [secrets |-> items, current_url |-> url]
             ELSE LET stype == strip(before_first(line, S_arrow))
                      evidence == strip(after_first(line, S_arrow))
                  IN  [secrets |->
                          add_record(items, stype,
                                     [evidence |-> evidence,
                                      filename |-> filename_of(evidence, url),
                                      url |-> url]),
                       current_url |-> url]

(***************************************************************************)
(* Inputs of the model                                                     *)
(***************************************************************************)
\* number of evidence records of a bucket
MaxEvidence == 6

T_TOKEN  == <<"c","u","r","l"," ","-","H"," ","$","T","O","K","E","N"," ","u">>
T_PLAIN  == <<"c","u","r","l"," ","u">>
T_HERE   == <<"c","u","r","l"," ","u","/","T","O","K","E","N","_","H","E","R","E">>
T_APIKEY == <<"c","u","r","l"," ","u","?","k","=","$","A","P","I","_","K","E","Y">>

L_GitHubToken == <<"G","i","t","H","u","b"," ","T","o","k","e","n">>
L_AWSKey      == <<"A","W","S"," ","K","e","y">>
L_StripeKey   == <<"S","t","r","i","p","e"," ","K","e","y">>
L_SlackToken  == <<"S","l","a","c","k"," ","T","o","k","e","n">>

\* a catalog section: "## title", then one fenced block with the templates
Section(title, info, templates) ==
    S_h2 \o title \o <<"\n">> \o Ticks(3) \o info \o <<"\n">>
         \o join(templates) \o <<"\n">> \o Ticks(3) \o <<"\n">>

\* key_verifier.md of the model: two sections
CatalogDoc ==
    Section(L_GitHubToken, <<>>, <<T_TOKEN, T_HERE>>)
    \o Section(L_AWSKey, <<"s","h">>, <<T_HERE, T_PLAIN, T_APIKEY, T_TOKEN>>)

\* the file's text; <<>> also stands for a missing file (line 70)
Catalogs == {CatalogDoc, <<>>}

SecretTypes == {L_GitHubToken, L_AWSKey, L_StripeKey}

Evid(i) == <<"e", DigitChars[i + 1]>>

\* an evidence text that leaves a quote open in the executed command
EvidQuote == <<"e", "\"">>

EvidenceRecord(ev) ==
    [evidence |-> ev, filename |-> <<"a",".","j","s">>, url |-> <<"u">>]

\* buckets of n records; with q the first text holds a quote
Bucket(n, q) ==
    [i \in 1..n |-> EvidenceRecord(IF q /\ i = 1 THEN EvidQuote ELSE Evid(i))]

\* two records, the first with an empty evidence text (dump line "AWS Key ->")
BlankBucket == <<EvidenceRecord(<<>>), EvidenceRecord(Evid(2))>>

\* an evidence text that holds a placeholder spelling
EvidToken == <<"x","T","O","K","E","N">>

\* one record whose evidence text is EvidToken
TokenBucket == <<EvidenceRecord(EvidToken)>>

Buckets ==
    {Bucket(n, FALSE) : n \in 0..MaxEvidence}
        \cup {Bucket(2, TRUE), BlankBucket, TokenBucket}

\* what a finished subprocess can report: <<exit code, stdout, stderr>>
ProcOutcomes ==
    { <<0, <<"o","k">>, <<>>>>,
      <<22, <<>>, <<"d","e","n","i","e","d">>>> }

(***************************************************************************)
(* State                                                                   *)
(***************************************************************************)
VARIABLES
    pc,               \* position in the code
    md_text,          \* text of key_verifier.md
    secret_type,      \* _verify_secret_type: arguments
    evid_list,
    commands,         \* _verify_secret_type: locals
    evidence_strings,
    attempted,
    verified,
    results,
    ci,               \* index of cmd in commands[:3]
    ei,               \* index of evidence in evidence_strings[:5]
    cmd_attempted,
    cmd_verified,
    best_result,
    ai_status,
    ai_analysis,
    verification,     \* the value _verify_secret_type returned
    proc,             \* the subprocess of the last run_command call
    ai_calls,         \* history: <<ci, ei>> of every verifier call
    run_calls,        \* history: <<ci, ei>> of every run_command call
    oracle_raised,    \* history: the last verifier call raised
    launched,         \* history: some subprocess was started
    timed_out,        \* history: the last run_command call timed out
    succeeded,        \* history: <<ci, ei>> of every successful attempt
    raised_at,        \* history: <<ci, ei>> of the last run_command call that
                      \* raised, <<0, 0>> if none did
    secrets,          \* build_json_report: argument, <<label, records>> pairs
    b,                \* index of the bucket in secrets.items(); 0: no report
    findings,         \* build_json_report: locals
    max_score,
    risk,
    desc,
    ai_remediation_steps,
    report,           \* the value build_json_report returned
    raised,           \* history: the oracle call that raised, or "none"
    dump,             \* parse_secret_file: the lines of the file
    line_no,          \* index of raw in the file
    current_url,      \* parse_secret_file: local
    all_secrets,      \* run_complete_exposure_analysis: what run_secret_analysis
                      \* returned
    sys_argv,         \* the process-wide sys.argv
    files,            \* the report files written so far
    result            \* the value run_complete_exposure_analysis returned

locals == <<commands, evidence_strings, attempted, verified, results, ci, ei,
            cmd_attempted, cmd_verified, best_result, ai_status, ai_analysis>>

history == <<proc, ai_calls, run_calls, oracle_raised, launched, timed_out,
             succeeded, raised_at>>

args == <<md_text, secret_type, evid_list>>

parser == <<dump, line_no, current_url>>

pipeline == <<all_secrets, sys_argv, files, result>>

outer == <<secrets, b, findings, max_score, risk, desc, ai_remediation_steps,
           report, raised, parser, pipeline>>

vars == <<pc, args, locals, verification, history, outer>>

\* a local that has not been assigned yet
UNBOUND == "UNBOUND"

cmd == commands[ci]

evidence == evidence_strings[ei]

\* the state before the body of _verify_secret_type runs
VerifyLocalsInit ==
    /\ commands = <<>>
    /\ evidence_strings = <<>>
    /\ attempted = FALSE
    /\ verified = FALSE
    /\ results = <<>>
    /\ ci = 1
    /\ ei = 1
    /\ cmd_attempted = FALSE
    /\ cmd_verified = FALSE
    /\ best_result = None
    /\ ai_status = UNBOUND
    /\ ai_analysis = UNBOUND
    /\ verification = None
    /\ proc = "none"
    /\ ai_calls = <<>>
    /\ run_calls = <<>>
    /\ oracle_raised = FALSE
    /\ launched = FALSE
    /\ timed_out = FALSE
    /\ succeeded = {}
    /\ raised_at = <<0, 0>>

\* the state before the body of build_json_report runs
ReportLocalsInit ==
    /\ findings = <<>>
    /\ max_score = 0
    /\ risk = UNBOUND
    /\ desc = UNBOUND
    /\ ai_remediation_steps = <<>>
    /\ report = None
    /\ raised = "none"

\* parse_secret_file is not running
ParserIdle ==
    /\ dump = <<>>
    /\ line_no = 1
    /\ current_url = S_Unknown

\* run_complete_exposure_analysis has not returned
Pending == [pending |-> TRUE]

\* sys.argv of the process
OriginalArgv == <<"run_complete_exposure_analysis.py", "https://x.com">>

\* run_complete_exposure_analysis is not running
PipelineIdle ==
    /\ all_secrets = <<>>
    /\ sys_argv = OriginalArgv
    /\ files = {}
    /\ result = Pending

\* a direct call _verify_secret_type(secret_type, evid_list)
InitVerify ==
    /\ pc = "v_entry"
    /\ md_text \in Catalogs
    /\ secret_type \in SecretTypes
    /\ evid_list \in Buckets
    /\ VerifyLocalsInit
    /\ secrets = <<>>
    /\ b = 0
    /\ ReportLocalsInit
    /\ ParserIdle
    /\ PipelineIdle

(***************************************************************************)
(* _verify_secret_type, lines 66-165                                       *)
(***************************************************************************)
\* lines 67-80: the catalog is read and matched, the locals are set
VerifyEntry ==
    /\ pc = "v_entry"
    /\ commands' = IF md_text # <<>> THEN extract_commands(secret_type, md_text)
                   ELSE <<>>
    /\ evidence_strings' = [i \in DOMAIN evid_list |-> evid_list[i].evidence]
    /\ attempted' = FALSE
    /\ verified' = FALSE
    /\ results' = <<>>
    /\ ci' = 1
    /\ pc' = "v_cmd"
    /\ UNCHANGED <<outer, args, ei, cmd_attempted, cmd_verified, best_result,
                   ai_status, ai_analysis, verification, history>>

\* line 70 raises (the file exists and cannot be read): line 165
CatalogUnreadable ==
    /\ pc = "v_entry"
    /\ md_text # <<>>
    /\ verification' = error_return("OSError")
    /\ pc' = "v_done"
    /\ UNCHANGED <<outer, args, locals, history>>

\* lines 83-89: the next template of commands[:3]
BeginTemplate ==
    /\ pc = "v_cmd"
    /\ ci <= Len(Take(commands, TemplateCap))
    /\ cmd_attempted' = FALSE
    /\ cmd_verified' = FALSE
    /\ best_result' = None
    /\ ei' = 1
    /\ pc' = IF Len(Take(evidence_strings, EvidenceCap)) >= 1 THEN "v_ask"
             ELSE "v_end_cmd"
    /\ UNCHANGED <<outer, args, commands, evidence_strings, attempted, verified,
                   results, ci, ai_status, ai_analysis, verification,
                   history>>

\* lines 158-163: all templates done
VerifyReturn ==
    /\ pc = "v_cmd"
    /\ ci > Len(Take(commands, TemplateCap))
    /\ verification' = normal_return(commands, attempted, verified, results)
    /\ pc' = "v_done"
    /\ UNCHANGED <<outer, args, locals, history>>

\* lines 91-94: the VerifyGuidance oracle answers
AskVerifier ==
    /\ pc = "v_ask"
    /\ ai_status' = "VALID"
    /\ ai_analysis' = "analysis"
    /\ ai_calls' = Append(ai_calls, <<ci, ei>>)
    /\ oracle_raised' = FALSE
    /\ pc' = "v_gate"
    /\ UNCHANGED <<outer, args, commands, evidence_strings, attempted, verified,
                   results, ci, ei, cmd_attempted, cmd_verified, best_result,
                   verification, proc, run_calls, launched, timed_out,
                   succeeded, raised_at>>

\* variant of lines 95-96: the exception reaches the handler of line 164
AskVerifierRaisesPropagates ==
    /\ pc = "v_ask"
    /\ ai_calls' = Append(ai_calls, <<ci, ei>>)
    /\ oracle_raised' = TRUE
    /\ verification' = error_return("oracle unavailable")
    /\ pc' = "v_done"
    /\ UNCHANGED <<outer, args, locals, proc, run_calls, launched, timed_out,
                   succeeded, raised_at>>

\* lines 95-96: the call raises
AskVerifierRaises ==
    /\ pc = "v_ask"
    /\ ai_status' = "ERROR"
    /\ ai_analysis' = "oracle unavailable"
    /\ ai_calls' = Append(ai_calls, <<ci, ei>>)
    /\ oracle_raised' = TRUE
    /\ pc' = "v_gate"
    /\ UNCHANGED <<outer, args, commands, evidence_strings, attempted, verified,
                   results, ci, ei, cmd_attempted, cmd_verified, best_result,
                   verification, proc, run_calls, launched, timed_out,
                   succeeded, raised_at>>

\* lines 139-141 and the loop head of line 89, after one evidence value
AfterEvidence(cv) ==
    IF breaks_loop(cv) THEN /\ pc' = "v_end_cmd" /\ ei' = ei
    ELSE IF ei + 1 <= Len(Take(evidence_strings, EvidenceCap))
         THEN /\ pc' = "v_ask" /\ ei' = ei + 1
         ELSE /\ pc' = "v_end_cmd" /\ ei' = ei

\* lines 98-125: the subprocess runs to its end within the timeout
RunCommandCompletes ==
    /\ pc = "v_gate"
    /\ has_placeholder(cmd)
    /\ ~shlex_raises(substitute(cmd, evidence))
    /\ \E o \in ProcOutcomes :
          LET res == run_result(cmd, substitute(cmd, evidence), o[1], o[2], o[3],
                                ai_status, ai_analysis, evidence)
          IN  /\ cmd_verified' = (cmd_verified \/ res.success)
              /\ verified' = (verified \/ res.success)
              /\ best_result' = keep_best(best_result, res)
              /\ succeeded' = IF res.success THEN succeeded \cup {<<ci, ei>>}
                               ELSE succeeded
              /\ AfterEvidence(cmd_verified \/ res.success)
    /\ cmd_attempted' = attempted_at_gate(TRUE)
    /\ attempted' = (attempted \/ attempted_at_gate(TRUE))
    /\ run_calls' = Append(run_calls, <<ci, ei>>)
    /\ proc' = "exited"
    /\ launched' = TRUE
    /\ timed_out' = FALSE
    /\ UNCHANGED <<outer, args, commands, evidence_strings, results, ci, ai_status,
                   ai_analysis, verification, ai_calls, oracle_raised,
                   raised_at>>

\* variant of lines 127-137: the exception reaches the handler of line 164
AfterRaiseAborts(res) ==
    /\ verification' = error_return(res.error)
    /\ pc' = "v_done"
    /\ run_calls' = Append(run_calls, <<ci, ei>>)
    /\ raised_at' = <<ci, ei>>
    /\ UNCHANGED <<outer, args, commands, evidence_strings, verified, results, ci,
                   ei, cmd_verified, best_result, ai_status, ai_analysis,
                   ai_calls, oracle_raised, succeeded>>

\* lines 127-137 after run_command raised; res is the attempt's record
AfterRaise(res) ==
    /\ best_result' = IF best_result = None THEN res ELSE best_result
    /\ AfterEvidence(cmd_verified)
    /\ run_calls' = Append(run_calls, <<ci, ei>>)
    /\ raised_at' = <<ci, ei>>
    /\ UNCHANGED <<outer, args, commands, evidence_strings, verified, results, ci,
                   cmd_verified, ai_status, ai_analysis, verification, ai_calls,
                   oracle_raised, succeeded>>

\* secret_verifier.py line 217: wait_for cancels communicate() and raises
\* TimeoutError (whose text is empty); nothing kills or waits for the process
RunCommandTimesOut ==
    /\ pc = "v_gate"
    /\ has_placeholder(cmd)
    /\ ~shlex_raises(substitute(cmd, evidence))
    /\ cmd_attempted' = attempted_at_gate(TRUE)
    /\ attempted' = (attempted \/ attempted_at_gate(TRUE))
    /\ proc' = "running"
    /\ launched' = TRUE
    /\ timed_out' = TRUE
    /\ AfterRaise(error_result(cmd, "", ai_status, ai_analysis,
                               evidence))

\* secret_verifier.py lines 213-216 raise: shlex.split on an open quote, or
\* create_subprocess_exec when the program cannot be started
RunCommandFailsToStart ==
    /\ pc = "v_gate"
    /\ has_placeholder(cmd)
    /\ cmd_attempted' = attempted_at_gate(FALSE)
    /\ attempted' = (attempted \/ attempted_at_gate(FALSE))
    /\ timed_out' = FALSE
    /\ UNCHANGED <<proc, launched>>
    /\ AfterRaise(error_result(cmd,
                               IF shlex_raises(substitute(cmd, evidence))
                               THEN "No closing quotation"
                               ELSE "FileNotFoundError",
                               ai_status, ai_analysis, evidence))

\* line 98 is false: no subprocess for this template
SkipCommand ==
    /\ pc = "v_gate"
    /\ ~has_placeholder(cmd)
    /\ AfterEvidence(cmd_verified)
    /\ UNCHANGED <<outer, args, commands, evidence_strings, attempted, verified,
                   results, ci, cmd_attempted, cmd_verified, best_result,
                   ai_status, ai_analysis, verification, history>>

\* lines 143-154: the template's record is appended
EndTemplate ==
    /\ pc = "v_end_cmd"
    /\ cmd_attempted \/ ai_status # UNBOUND
    /\ LET best == IF ~cmd_attempted
                   THEN guidance_result(cmd, ai_status, ai_analysis)
                   ELSE best_result
       IN  /\ best_result' = best
           /\ results' = IF best # None THEN Append(results, best) ELSE results
    /\ ci' = ci + 1
    /\ pc' = "v_cmd"
    /\ UNCHANGED <<outer, args, commands, evidence_strings, attempted, verified, ei,
                   cmd_attempted, cmd_verified, ai_status, ai_analysis,
                   verification, history>>

\* line 148 reads ai_status before any assignment (no evidence value was
\* iterated): UnboundLocalError, caught at line 164
EndTemplateUnbound ==
    /\ pc = "v_end_cmd"
    /\ ~cmd_attempted
    /\ ai_status = UNBOUND
    /\ verification' = error_return("UnboundLocalError")
    /\ pc' = "v_done"
    /\ UNCHANGED <<outer, args, locals, history>>

NextVerify ==
    \/ VerifyEntry
    \/ CatalogUnreadable
    \/ BeginTemplate
    \/ VerifyReturn
    \/ AskVerifier
    \/ AskVerifierRaises
    \/ RunCommandCompletes
    \/ RunCommandTimesOut
    \/ RunCommandFailsToStart
    \/ SkipCommand
    \/ EndTemplate
    \/ EndTemplateUnbound

SpecVerify == InitVerify /\ [][NextVerify]_vars

(***************************************************************************)
(* ai_classifier.py and Remidiation_Agent.py: what the oracle calls return *)
(***************************************************************************)
Severities == {"CRITICAL", "HIGH", "MEDIUM", "LOW", "INFO"}

\* the steps the oracle answers with
OracleSteps == <<"Step 1: revoke the key", "Step 2: rotate", "Step 3: scan">>

\* ai_classifier.py line 64: the answer holds no "remediation_steps"
DefaultSteps == <<"Review and assess the security implications">>

\* Remidiation_Agent.py lines 69-74: the fallback of the module that
\* json_report.py does not import
GenericRemediation ==
    <<"Revoke the exposed credential(s) immediately and rotate keys/tokens.",
      "Remove secrets from client-side code and public repositories.",
      "Store secrets in a server-side secrets manager and enforce least privilege.",
      "Add CI/CD secret scanning (e.g., Gitleaks/TruffleHog) to prevent future leaks.">>

(***************************************************************************)
(* json_report.py: build_json_report                                       *)
(***************************************************************************)
\* line 170, read with .get(risk, 0)
highest_rank(r) ==
    CASE r = "CRITICAL" -> 4
      [] r = "HIGH" -> 3
      [] r = "MEDIUM" -> 2
      [] r = "LOW" -> 1
      [] OTHER -> 0

\* line 210: {v: k for k, v in highest_rank.items()}[max_score]
rank_name(n) == CHOOSE r \in Severities : highest_rank(r) = n /\ (n = 0 => r = "INFO")

\* lines 25-28, in tenths
get_risk_score(r) ==
    CASE r = "CRITICAL" -> 9
      [] r = "HIGH" -> 7
      [] r = "MEDIUM" -> 5
      [] r = "LOW" -> 3
      [] r = "INFO" -> 1
      [] OTHER -> 0

\* lines 14-23: one canned text per risk level, with the type interpolated
get_impact_description(r, stype) ==
    IF r \in Severities THEN [text |-> r, secret_type |-> stype]
    ELSE [text |-> "Unknown risk level.", secret_type |-> <<>>]

S_api_exposure == <<"a","p","i","_","e","x","p","o","s","u","r","e","_">>

S_title == <<"A","P","I"," ","E","x","p","o","s","u","r","e"," ","-"," ">>

\* line 185
finding_id(stype) == S_api_exposure \o replace(lower(stype), <<" ">>, <<"_">>)

\* lines 181-207
finding_of(stype, evids, r, d, steps, v) ==
    [id |-> finding_id(stype),
     title |-> S_title \o stype,
     severity |-> r,
     status |-> "OPEN",
     endpoint |-> "JavaScript Files",
     description |-> d,
     impact |-> get_impact_description(r, stype),
     remediation_steps |-> steps,
     validation_commands |-> v.commands,
     verification |-> [attempted |-> v.attempted, verified |-> v.verified,
                       commands |-> v.commands, results |-> v.results],
     evidence |-> [i \in DOMAIN Take(evids, EvidenceCap) |-> evids[i].evidence],
     evidence_data |-> Take(evids, EvidenceCap),
     secret_type |-> stype,
     risk_score |-> get_risk_score(r),
     confidence_level |-> "high",
     category |-> "api_exposure"]

count_severity(fs, sev) == Len(SelectSeq(fs, LAMBDA f : f.severity = sev))

RECURSIVE total_evidences(_)
total_evidences(items) ==
    IF items = <<>> THEN 0
    ELSE Len(items[1][2]) + total_evidences(Tail(items))

\* variant of line 222: sorted(...)[::-1], findings of one rank change places
RECURSIVE SortedThenReversed(_, _)
SortedThenReversed(fs, n) ==
    IF n < 0 THEN <<>>
    ELSE SelectSeq([i \in DOMAIN fs |-> fs[Len(fs) + 1 - i]],
                   LAMBDA f : highest_rank(f.severity) = n)
         \o SortedThenReversed(fs, n - 1)

\* line 222: sorted(..., reverse=True) is stable: findings of one rank keep
\* their order
RECURSIVE sorted_by_rank(_, _)
sorted_by_rank(fs, n) ==
    IF n < 0 THEN <<>>
    ELSE SelectSeq(fs, LAMBDA f : highest_rank(f.severity) = n)
         \o sorted_by_rank(fs, n - 1)

\* lines 210-225
report_of(fs, score, items) ==
    [overall_risk |-> IF fs # <<>> THEN rank_name(score) ELSE "INFO",
     summary |-> [total_findings |-> Len(fs),
                  critical_findings |-> count_severity(fs, "CRITICAL"),
                  high_findings |-> count_severity(fs, "HIGH"),
                  medium_findings |-> count_severity(fs, "MEDIUM"),
                  low_findings |-> count_severity(fs, "LOW"),
                  total_secret_types |-> Len(items),
                  total_evidences |-> total_evidences(items)],
     findings |-> sorted_by_rank(fs, 4),
     analysis_type |-> "api_exposure"]

\* number of buckets of a report
MaxBuckets == 2

\* the catalog of the report runs: two sections of one template each
SmallCatalog ==
    Section(L_GitHubToken, <<>>, <<T_TOKEN>>) \o Section(L_AWSKey, <<>>, <<T_PLAIN>>)

ReportCatalogs == {SmallCatalog, <<>>}

\* the buckets a label comes with
ReportBuckets(label) ==
    IF label = L_AWSKey THEN {Bucket(0, FALSE), Bucket(1, FALSE)}
    ELSE {Bucket(1, FALSE)}

\* the argument of build_json_report: distinct labels in insertion order
ReportInputs ==
    {items \in UNION {[1..n -> {<<l, bk>> : l \in SecretTypes, bk \in Buckets}] :
                        n \in 0..MaxBuckets} :
        /\ \A i, j \in DOMAIN items : i # j => items[i][1] # items[j][1]
        /\ \A i \in DOMAIN items : items[i][2] \in ReportBuckets(items[i][1])}

\* a call build_json_report(secrets)
Init ==
    /\ pc = "r_loop"
    /\ md_text \in ReportCatalogs
    /\ secrets \in ReportInputs
    /\ b = 1
    /\ secret_type = <<>>
    /\ evid_list = <<>>
    /\ VerifyLocalsInit
    /\ ReportLocalsInit
    /\ ParserIdle
    /\ PipelineIdle

stype == secrets[b][1]

\* variant of line 175: max_score follows the last classification
ClassifyLastWins ==
    /\ pc = "r_loop"
    /\ b <= Len(secrets)
    /\ \E r \in Severities :
          /\ risk' = r
          /\ max_score' = highest_rank(r)
    /\ desc' = "description"
    /\ pc' = "r_remediate"
    /\ UNCHANGED <<pipeline, parser, args, locals, verification, history, secrets, b, findings,
                   ai_remediation_steps, report, raised>>

\* lines 174-175: the Classify oracle answers
Classify ==
    /\ pc = "r_loop"
    /\ b <= Len(secrets)
    /\ \E r \in Severities :
          /\ risk' = r
          /\ max_score' = IF highest_rank(r) > max_score THEN highest_rank(r)
                           ELSE max_score
    /\ desc' = "description"
    /\ pc' = "r_remediate"
    /\ UNCHANGED <<pipeline, parser, args, locals, verification, history, secrets, b, findings,
                   ai_remediation_steps, report, raised>>

\* line 174: classify raises (transport error, answer that is no JSON or
\* lacks a key); build_json_report has no handler, the exception leaves it
ClassifyRaises ==
    /\ pc = "r_loop"
    /\ b <= Len(secrets)
    /\ raised' = "classify"
    /\ pc' = "r_raised"
    /\ UNCHANGED <<pipeline, parser, args, locals, verification, history, secrets, b, findings,
                   max_score, risk, desc, ai_remediation_steps, report>>

\* line 176 with ai_classifier.py lines 54-64: the Remediate oracle answers,
\* with or without the "remediation_steps" key
Remediate ==
    /\ pc = "r_remediate"
    /\ ai_remediation_steps' \in {OracleSteps, DefaultSteps}
    /\ pc' = "r_verify"
    /\ UNCHANGED <<pipeline, parser, args, locals, verification, history, secrets, b, findings,
                   max_score, risk, desc, report, raised>>

\* line 176: Remediation_Agent of ai_classifier.py raises; no handler there
\* or in build_json_report
RemediateRaises ==
    /\ pc = "r_remediate"
    /\ raised' = "remediate"
    /\ pc' = "r_raised"
    /\ UNCHANGED <<pipeline, parser, args, locals, verification, history, secrets, b, findings,
                   max_score, risk, desc, ai_remediation_steps, report>>

\* line 178: the call of _verify_secret_type, with fresh locals
CallVerify ==
    /\ pc = "r_verify"
    /\ secret_type' = stype
    /\ evid_list' = secrets[b][2]
    /\ commands' = <<>>
    /\ evidence_strings' = <<>>
    /\ attempted' = FALSE
    /\ verified' = FALSE
    /\ results' = <<>>
    /\ ci' = 1
    /\ ei' = 1
    /\ cmd_attempted' = FALSE
    /\ cmd_verified' = FALSE
    /\ best_result' = None
    /\ ai_status' = UNBOUND
    /\ ai_analysis' = UNBOUND
    /\ verification' = None
    /\ proc' = "none"
    /\ ai_calls' = <<>>
    /\ run_calls' = <<>>
    /\ oracle_raised' = FALSE
    /\ launched' = FALSE
    /\ timed_out' = FALSE
    /\ succeeded' = {}
    /\ raised_at' = <<0, 0>>
    /\ pc' = "v_entry"
    /\ UNCHANGED <<md_text, outer>>

\* lines 181-208: the finding of the bucket
BuildFinding ==
    /\ pc = "v_done"
    /\ b >= 1
    /\ findings' = Append(findings,
                          finding_of(stype, secrets[b][2], risk, desc,
                                     ai_remediation_steps, verification))
    /\ b' = b + 1
    /\ pc' = "r_loop"
    /\ UNCHANGED <<pipeline, parser, args, locals, verification, history, secrets, max_score,
                   risk, desc, ai_remediation_steps, report, raised>>

\* lines 210-225: the report is returned
Compose ==
    /\ pc = "r_loop"
    /\ b > Len(secrets)
    /\ report' = report_of(findings, max_score, secrets)
    /\ pc' = "r_done"
    /\ UNCHANGED <<pipeline, parser, args, locals, verification, history, secrets, b, findings,
                   max_score, risk, desc, ai_remediation_steps, raised>>

NextReport ==
    \/ Classify
    \/ ClassifyRaises
    \/ Remediate
    \/ RemediateRaises
    \/ CallVerify
    \/ BuildFinding
    \/ Compose

Next == NextVerify \/ NextReport

Spec == Init /\ [][Next]_vars

(***************************************************************************)
(* build_json_report for buckets of one record, key_verifier.md missing    *)
(***************************************************************************)
\* number of buckets, and so of findings
MaxFindings == 3

\* the label of a dump line "aws key -> ...": labels are kept as written
L_awskey == <<"a","w","s"," ","k","e","y">>

AggregateLabels == <<L_GitHubToken, L_AWSKey, L_awskey, L_StripeKey, L_SlackToken>>

\* the first n labels; the first bucket holds one record or MaxEvidence
\* records, the others one record
AggregateInputs ==
    {[i \in 1..n |-> <<AggregateLabels[i], IF i = 1 THEN bk ELSE Bucket(1, FALSE)>>] :
        n \in 0..MinOf({MaxFindings, Len(AggregateLabels)}),
        bk \in {Bucket(1, FALSE), Bucket(MaxEvidence, FALSE)}}

InitAggregate ==
    /\ pc = "r_loop"
    /\ md_text = <<>>
    /\ secrets \in AggregateInputs
    /\ b = 1
    /\ secret_type = <<>>
    /\ evid_list = <<>>
    /\ VerifyLocalsInit
    /\ ReportLocalsInit
    /\ ParserIdle
    /\ PipelineIdle

\* the steps of Next that a run without catalog can take: no template is
\* matched, _verify_secret_type returns at once
NextAggregate ==
    \/ Classify
    \/ ClassifyRaises
    \/ Remediate
    \/ RemediateRaises
    \/ CallVerify
    \/ VerifyEntry
    \/ VerifyReturn
    \/ BuildFinding
    \/ Compose

SpecAggregate == InitAggregate /\ [][NextAggregate]_vars

(***************************************************************************)
(* parse_secret_file on its own: a call parse_secret_file(path)            *)
(***************************************************************************)
\* number of lines of a dump
MaxLines == 3

D_URL1 ==
  <<"["," ","+"," ","]"," ","U","R","L",":"," ","h","t","t","p","s",
      ":","/","/","x",".","c","o","m","/","a","p","p",".","j",
      "s">>
D_URL2 ==
  <<"["," ","+"," ","]"," ","U","R","L",":"," ","h","t","t","p",":",
      "/","/","h","/","b","-",">","c">>
D_AWS ==
  <<"A","W","S"," ","K","e","y"," ","-",">"," ","A","K","I","A","1",
      "2","3","4","5","6","7","8","9","0","A","B","C","D","1",
      "2">>
D_GIT ==
  <<" "," ","G","i","t","H","u","b"," ","T","o","k","e","n","-",">",
      "x",".","j","s",":","3",":","g","h","p","-",">","y"," ">>
D_AWS2 ==
  <<"A","W","S"," ","K","e","y"," ","-",">">>
D_TEXT ==
  <<"["," ","+"," ","]"," ","S","c","a","n","n","i","n","g">>

\* two URL lines (the second with "->" in the url), three evidence lines
\* (spaces around the texts, a second "->", an empty evidence), one other
DumpLines == {D_URL1, D_URL2, D_AWS, D_GIT, D_AWS2, D_TEXT}

Dumps == UNION {[1..n -> DumpLines] : n \in 0..MaxLines}

InitParse ==
    /\ pc = "p_loop"
    /\ dump \in Dumps
    /\ line_no = 1
    /\ current_url = S_Unknown
    /\ secrets = <<>>
    /\ b = 0
    /\ md_text = <<>>
    /\ secret_type = <<>>
    /\ evid_list = <<>>
    /\ VerifyLocalsInit
    /\ ReportLocalsInit
    /\ PipelineIdle

\* lines 35-80: one pass of the loop
ParseLine ==
    /\ pc = "p_loop"
    /\ line_no <= Len(dump)
    /\ LET r == parse_line(secrets, current_url, dump[line_no])
       IN  /\ secrets' = r.secrets
           /\ current_url' = r.current_url
    /\ line_no' = line_no + 1
    /\ UNCHANGED <<pipeline, pc, dump, args, locals, verification, history, b, findings,
                   max_score, risk, desc, ai_remediation_steps, report, raised>>

\* line 81
ParseReturn ==
    /\ pc = "p_loop"
    /\ line_no > Len(dump)
    /\ pc' = "p_done"
    /\ UNCHANGED <<pipeline, parser, args, locals, verification, history, secrets, b,
                   findings, max_score, risk, desc, ai_remediation_steps,
                   report, raised>>

NextParse == ParseLine \/ ParseReturn

SpecParse == InitParse /\ [][NextParse]_vars

(***************************************************************************)
(* run_complete_exposure_analysis.py lines 20-217, from the value of       *)
(* run_secret_analysis on, with Exposure_Discovery.create_secret_dump and  *)
(* Api_Exposure_classifier.main; key_verifier.md is missing                *)
(***************************************************************************)
\* number of secrets run_secret_analysis returns
MaxSecrets == 2

F_xcom == <<"h","t","t","p","s",":","/","/","x",".","c","o","m","/","a","p",
            "p",".","j","s">>
F_h == <<"h","t","t","p",":","/","/","h","/","b",".","j","s">>
K_AKIA == <<"A","K","I","A","1","2","3","4">>
K_arrow == <<"k","-",">","v">>

\* Exposure_Discovery.py lines 116-122: one secret of one JavaScript file
SecretInfos == {[file |-> f, secret |-> k] : f \in {F_xcom, F_h}, k \in {K_AKIA, K_arrow}}

SecretLists == UNION {[1..n -> SecretInfos] : n \in 0..MaxSecrets}

\* str(n) for the numbers the header holds
str_of(n) == IF n < 10 THEN <<DigitChars[n + 1]>> ELSE <<DigitChars[(n \div 10) + 1], DigitChars[(n % 10) + 1]>>

\* Exposure_Discovery.py lines 152-156; the time is that of the run
dump_header(secs) ==
    <<"S","e","c","r","e","t","F","i","n","d","e","r"," ","A","n","a","l",
      "y","s","i","s"," ","R","e","s","u","l","t","s","\n">>
    \o <<"G","e","n","e","r","a","t","e","d",":"," ","2","0","2","4","-",
         "0","1","-","0","1","T","0","0",":","0","0",":","0","0","\n">>
    \o <<"T","o","t","a","l"," ","f","i","l","e","s"," ","a","n","a","l",
         "y","z","e","d",":"," ">>
    \o str_of(Cardinality({secs[i].file : i \in DOMAIN secs})) \o <<"\n">>
    \o <<"T","o","t","a","l"," ","s","e","c","r","e","t","s"," ","f","o",
         "u","n","d",":"," ">>
    \o str_of(Len(secs)) \o <<"\n">>
    \o [i \in 1..60 |-> "="] \o <<"\n", "\n">>

\* Exposure_Discovery.py lines 158-161
RECURSIVE dump_body(_)
dump_body(secs) ==
    IF secs = <<>> THEN <<>>
    ELSE <<"F","i","l","e",":"," ">> \o secs[1].file \o <<"\n">>
         \o <<"S","e","c","r","e","t",":"," ">> \o secs[1].secret \o <<"\n">>
         \o [i \in 1..40 |-> "-"] \o <<"\n">>
         \o dump_body(Tail(secs))

\* Exposure_Discovery.py lines 135-163: the text of the file written
create_secret_dump(secs) == dump_header(secs) \o dump_body(secs)

\* lines 121-127
ClassifierArgv ==
    <<"Api_Exposure_classifier.py", "secret_dump_path", "--report-json", "json_output",
      "--report-md", "md_output", "--report-pdf", "pdf_output">>

\* lines 196-203
result_of(secs) ==
    [json_report |-> "json_output", markdown_report |-> "md_output",
     pdf_report |-> "pdf_output", secrets_count |-> Len(secs)]

InitPipeline ==
    /\ pc = "x_start"
    /\ all_secrets \in SecretLists
    /\ sys_argv = OriginalArgv
    /\ files = {}
    /\ result = Pending
    /\ md_text = <<>>
    /\ secret_type = <<>>
    /\ evid_list = <<>>
    /\ VerifyLocalsInit
    /\ secrets = <<>>
    /\ b = 0
    /\ ReportLocalsInit
    /\ ParserIdle

\* lines 51-67: Katana fails or finds no JavaScript file
DiscoveryFails ==
    /\ pc = "x_start"
    /\ result' = None
    /\ pc' = "x_no_js"
    /\ UNCHANGED <<args, locals, verification, history, secrets, b, findings,
                   max_score, risk, desc, ai_remediation_steps, report, raised,
                   parser, all_secrets, sys_argv, files>>

\* lines 74-78
NoSecrets ==
    /\ pc = "x_start"
    /\ all_secrets = <<>>
    /\ result' = None
    /\ pc' = "x_no_secrets"
    /\ UNCHANGED <<args, locals, verification, history, secrets, b, findings,
                   max_score, risk, desc, ai_remediation_steps, report, raised,
                   parser, all_secrets, sys_argv, files>>

\* lines 85-93: the dump is written
CreateSecretDump ==
    /\ pc = "x_start"
    /\ all_secrets # <<>>
    /\ dump' = splitlines(create_secret_dump(all_secrets))
    /\ pc' = "x_classify"
    /\ UNCHANGED <<args, locals, verification, history, secrets, b, findings,
                   max_score, risk, desc, ai_remediation_steps, report, raised,
                   line_no, current_url, pipeline>>

\* Exposure_Discovery.py lines 165-168, then lines 87-89: the dump cannot be
\* written
CreateSecretDumpFails ==
    /\ pc = "x_start"
    /\ all_secrets # <<>>
    /\ result' = None
    /\ pc' = "x_no_dump"
    /\ UNCHANGED <<args, locals, verification, history, secrets, b, findings,
                   max_score, risk, desc, ai_remediation_steps, report, raised,
                   parser, all_secrets, sys_argv, files>>

\* lines 116-130 and Api_Exposure_classifier.py lines 93-132: sys.argv is
\* replaced, main() parses it and calls parse_secret_file
RunClassifier ==
    /\ pc = "x_classify"
    /\ sys_argv' = ClassifierArgv
    /\ line_no' = 1
    /\ current_url' = S_Unknown
    /\ secrets' = <<>>
    /\ pc' = "p_loop"
    /\ UNCHANGED <<args, locals, verification, history, b, findings, max_score,
                   risk, desc, ai_remediation_steps, report, raised, dump,
                   all_secrets, files, result>>

\* Api_Exposure_classifier.py line 133: the call of build_json_report
ClassifierBuild ==
    /\ pc = "p_done"
    /\ b' = 1
    /\ pc' = "r_loop"
    /\ UNCHANGED <<args, locals, verification, history, secrets, findings,
                   max_score, risk, desc, ai_remediation_steps, report, raised,
                   parser, pipeline>>

\* Api_Exposure_classifier.py lines 137-180 and lines 130-133: the JSON and
\* Markdown files are written; build_pdf_report writes the PDF or fails
\* (pdf_report.py lines 680-684, or the handler of line 159); main returns
\* and sys.argv is restored
ClassifierWrites ==
    /\ pc = "r_done"
    /\ \E pdf_written \in BOOLEAN :
          files' = files \cup {"json_output", "md_output"}
                      \cup (IF pdf_written THEN {"pdf_output"} ELSE {})
    /\ sys_argv' = OriginalArgv
    /\ pc' = "x_return"
    /\ UNCHANGED <<args, locals, verification, history, secrets, b, findings,
                   max_score, risk, desc, ai_remediation_steps, report, raised,
                   parser, all_secrets, result>>

\* Api_Exposure_classifier.py lines 141-153 and 182-185: write_text raises
\* for the JSON file, or for the Markdown file after the JSON file was
\* written; main raises
ClassifierWriteFails ==
    /\ pc = "r_done"
    /\ \E json_written \in BOOLEAN :
          files' = files \cup (IF json_written THEN {"json_output"} ELSE {})
    /\ raised' = "write"
    /\ pc' = "r_raised"
    /\ UNCHANGED <<args, locals, verification, history, secrets, b, findings,
                   max_score, risk, desc, ai_remediation_steps, report, parser,
                   all_secrets, sys_argv, result>>

\* lines 135-172: main raised; the basic JSON and Markdown reports are
\* written
Fallback ==
    /\ pc = "r_raised"
    /\ files' = files \cup {"json_output", "md_output"}
    /\ pc' = "x_return"
    /\ UNCHANGED <<args, locals, verification, history, secrets, b, findings,
                   max_score, risk, desc, ai_remediation_steps, report, raised,
                   parser, all_secrets, sys_argv, result>>

\* lines 150-155 raise (a basic report cannot be written): lines 205-217
FallbackFails ==
    /\ pc = "r_raised"
    /\ \E json_written \in BOOLEAN :
          files' = files \cup (IF json_written THEN {"json_output"} ELSE {})
    /\ result' = None
    /\ pc' = "x_error"
    /\ UNCHANGED <<args, locals, verification, history, secrets, b, findings,
                   max_score, risk, desc, ai_remediation_steps, report, raised,
                   parser, all_secrets, sys_argv>>

\* lines 174-203
ReturnResult ==
    /\ pc = "x_return"
    /\ result' = result_of(all_secrets)
    /\ pc' = "x_done"
    /\ UNCHANGED <<args, locals, verification, history, secrets, b, findings,
                   max_score, risk, desc, ai_remediation_steps, report, raised,
                   parser, all_secrets, sys_argv, files>>

NextPipeline ==
    \/ DiscoveryFails
    \/ NoSecrets
    \/ CreateSecretDump
    \/ CreateSecretDumpFails
    \/ RunClassifier
    \/ NextParse
    \/ ClassifierBuild
    \/ NextAggregate
    \/ ClassifierWrites
    \/ ClassifierWriteFails
    \/ Fallback
    \/ FallbackFails
    \/ ReturnResult

SpecPipeline == InitPipeline /\ [][NextPipeline]_vars

(***************************************************************************)
(* extract_commands on its own: a call extract_commands(label, catalog)    *)
(***************************************************************************)
\* number of words of a requested label
MaxWords == 3

W_GitHub   == <<"G","i","t","H","u","b">>
W_Personal == <<"P","e","r","s","o","n","a","l">>
W_Token    == <<"T","o","k","e","n">>

LabelWords == {W_GitHub, W_Personal, W_Token}

WordSeqs == UNION {[1..n -> LabelWords] : n \in 1..MaxWords}

\* the words separated by one space
RECURSIVE JoinWords(_)
JoinWords(ws) ==
    IF Len(ws) = 1 THEN ws[1] ELSE ws[1] \o <<" ">> \o JoinWords(Tail(ws))

MatchLabels == {JoinWords(ws) : ws \in WordSeqs}

T_GITHUB == <<"c","u","r","l"," ","-","H"," ","\"","A","u","t","h","o","r","i",
              "z","a","t","i","o","n",":"," ","t","o","k","e","n"," ","$","T",
              "O","K","E","N","\""," ","h","t","t","p","s",":","/","/","a","p",
              "i",".","g","i","t","h","u","b",".","c","o","m","/","u","s","e",
              "r">>

\* a section titled "## GitHub Token" with one fenced template
GitHubDoc == Section(L_GitHubToken, <<>>, <<T_GITHUB>>)

\* the same section under the title "GitHub Token (classic)"
GitHubDocParen ==
    Section(L_GitHubToken \o <<" ","(","c","l","a","s","s","i","c",")">>, <<>>,
            <<T_GITHUB>>)

\* the same section under the title "[GitHub Token](u)", the template also
\* on a line of its own after the block
GitHubDocLink ==
    Section(<<"[">> \o L_GitHubToken \o <<"]","(","u",")">>, <<"s","h">>,
            <<T_GITHUB>>) \o T_GITHUB \o <<"\n">>

MatchCatalogs == {GitHubDoc, GitHubDocParen, GitHubDocLink}

InitMatch ==
    /\ pc = "m_call"
    /\ md_text \in MatchCatalogs
    /\ secret_type \in MatchLabels
    /\ evid_list = <<>>
    /\ VerifyLocalsInit
    /\ secrets = <<>>
    /\ b = 0
    /\ ReportLocalsInit
    /\ ParserIdle
    /\ PipelineIdle

\* commands = extract_commands(secret_type, md_text)
MatchCall ==
    /\ pc = "m_call"
    /\ commands' = extract_commands(secret_type, md_text)
    /\ pc' = "m_done"
    /\ UNCHANGED <<outer, args, evidence_strings, attempted, verified, results,
                   ci, ei, cmd_attempted, cmd_verified, best_result, ai_status,
                   ai_analysis, verification, history>>

NextMatch == MatchCall

SpecMatch == InitMatch /\ [][NextMatch]_vars

(***************************************************************************)
(* The success heuristic on its own: one executed attempt, lines 102-125   *)
(***************************************************************************)
\* exit codes of the subprocess
ExitCodes == {0, 1, 22}

P_ok == <<"o","k">>
P_newline == <<"\n">>
P_AccessDenied == <<"A","c","c","e","s","s"," ","D","e","n","i","e","d">>
P_INVALID == <<"I","N","V","A","L","I","D">>
P_Forbidden == <<"F","o","r","b","i","d","d","e","n">>
P_Unauthorized == <<"4","0","1"," ","U","n","a","u","t","h","o","r","i","z","e","d">>
P_valid == <<"v","a","l","i","d">>

\* what the subprocess writes to stdout or stderr
ProcTexts == {<<>>, P_ok, P_newline, P_AccessDenied, P_INVALID, P_Forbidden, P_Unauthorized, P_valid}

InitHeuristic ==
    /\ pc = "h_call"
    /\ md_text = <<>>
    /\ secret_type = L_GitHubToken
    /\ evid_list = Bucket(1, FALSE)
    /\ VerifyLocalsInit
    /\ secrets = <<>>
    /\ b = 0
    /\ ReportLocalsInit
    /\ ParserIdle
    /\ PipelineIdle

\* lines 102-125 for the template T_TOKEN and the evidence of the bucket:
\* run_command returns <<code, out, err>>
HeuristicCall ==
    /\ pc = "h_call"
    /\ \E code \in ExitCodes, out \in ProcTexts, err \in ProcTexts :
          LET ev == evid_list[1].evidence
              res == run_result(T_TOKEN, substitute(T_TOKEN, ev), code, out, err,
                                "VALID", "analysis", ev)
          IN  /\ best_result' = keep_best(best_result, res)
              /\ cmd_verified' = (cmd_verified \/ res.success)
              /\ verified' = (verified \/ res.success)
    /\ pc' = "h_done"
    /\ UNCHANGED <<outer, args, commands, evidence_strings, attempted, results,
                   ci, ei, cmd_attempted, ai_status, ai_analysis, verification,
                   history>>

NextHeuristic == HeuristicCall

SpecHeuristic == InitHeuristic /\ [][NextHeuristic]_vars

(***************************************************************************)
(* verify_secret_with_evidence, secret_verifier.py lines 220-266: a call   *)
(* verify_secret_with_evidence(evidence, token)                            *)
(***************************************************************************)
\* line 218: what run_command returns
run_command_returns(command, token, code, out, err) ==
    <<code, out, err, substitute(command, token)>>

\* line 252
is_curl(command) == StartsWithAt(lower(strip(command)), 1, S_curl)

\* lines 259-261: the markers looked for in stderr
stderr_markers == << <<"u","n","a","u","t","h","o","r","i","z","e","d">>,
                     <<"f","o","r","b","i","d","d","e","n">>,
                     <<"i","n","v","a","l","i","d">>,
                     <<"a","u","t","h","e","n","t","i","c","a","t","i","o","n"," ",
                       "f","a","i","l","e","d">>,
                     <<"a","c","c","e","s","s"," ","d","e","n","i","e","d">> >>

has_stderr_marker(err) ==
    \E k \in DOMAIN stderr_markers : contains(lower(err), stderr_markers[k])

\* the tuple verify_secret_with_evidence returns
evidence_return(success, exit_code, stdout, stderr) ==
    [success |-> success, exit_code |-> exit_code, stdout |-> stdout,
     stderr |-> stderr]

\* lines 265-266
evidence_failure(ex) == evidence_return(FALSE, -1, <<>>, <<"Error executing command: ", ex>>)

\* lines 256-263: the value of run_command is unpacked into three names
unpack_and_judge(returned) ==
    IF Len(returned) # 3
    THEN evidence_failure("too many values to unpack (expected 3)")
    ELSE evidence_return(returned[1] = 0 /\ ~has_stderr_marker(returned[3]),
                         returned[1], returned[2], returned[3])

E_echo == <<"e","c","h","o"," ","u">>
E_CURL == <<" ","C","U","R","L"," ","u","/","T","O","K","E","N","_","H","E","R","E">>

\* the evidence argument
EvidenceCommands == {T_TOKEN, T_PLAIN, T_HERE, T_APIKEY, E_echo, E_CURL}

\* the token argument
EvidenceTokens == {Evid(1), <<>>, EvidQuote, EvidToken}

\* commands holds the evidence argument, evidence_strings the token
InitEvidence ==
    /\ pc = "w_call"
    /\ md_text = <<>>
    /\ secret_type = <<>>
    /\ evid_list = <<>>
    /\ commands \in {<<c>> : c \in EvidenceCommands}
    /\ evidence_strings \in {<<t>> : t \in EvidenceTokens}
    /\ attempted = FALSE
    /\ verified = FALSE
    /\ results = <<>>
    /\ ci = 1
    /\ ei = 1
    /\ cmd_attempted = FALSE
    /\ cmd_verified = FALSE
    /\ best_result = None
    /\ ai_status = UNBOUND
    /\ ai_analysis = UNBOUND
    /\ verification = None
    /\ proc = "none"
    /\ ai_calls = <<>>
    /\ run_calls = <<>>
    /\ oracle_raised = FALSE
    /\ launched = FALSE
    /\ timed_out = FALSE
    /\ succeeded = {}
    /\ raised_at = <<0, 0>>
    /\ secrets = <<>>
    /\ b = 0
    /\ ReportLocalsInit
    /\ ParserIdle
    /\ PipelineIdle

\* lines 250-253: the evidence is no curl command
EvidenceNotCurl ==
    /\ pc = "w_call"
    /\ ~is_curl(cmd)
    /\ verification' = evidence_return(FALSE, -1, <<>>,
                                       <<"Error: Evidence must be a curl command">>)
    /\ pc' = "w_done"
    /\ UNCHANGED <<outer, args, locals, history>>

\* line 256, right-hand side: run_command runs the subprocess to its end and
\* returns; best_result holds the returned value
EvidenceRunReturns ==
    /\ pc = "w_call"
    /\ is_curl(cmd)
    /\ ~shlex_raises(substitute(cmd, evidence))
    /\ \E code \in ExitCodes, out \in {<<>>, P_ok}, err \in ProcTexts :
          best_result' = run_command_returns(cmd, evidence, code, out, err)
    /\ run_calls' = Append(run_calls, <<ci, ei>>)
    /\ proc' = "exited"
    /\ launched' = TRUE
    /\ pc' = "w_unpack"
    /\ UNCHANGED <<outer, args, commands, evidence_strings, attempted, verified,
                   results, ci, ei, cmd_attempted, cmd_verified, ai_status,
                   ai_analysis, verification, ai_calls, oracle_raised, timed_out,
                   succeeded, raised_at>>

\* line 256: run_command raises (open quote, program not started, timeout);
\* lines 265-266
EvidenceRunRaises ==
    /\ pc = "w_call"
    /\ is_curl(cmd)
    /\ \E ex \in {"No closing quotation", "FileNotFoundError", ""} :
          /\ (ex = "No closing quotation") <=> shlex_raises(substitute(cmd, evidence))
          /\ verification' = evidence_failure(ex)
          /\ timed_out' = (ex = "")
          /\ launched' = (ex = "")
          /\ proc' = IF ex = "" THEN "running" ELSE proc
    /\ run_calls' = Append(run_calls, <<ci, ei>>)
    /\ raised_at' = <<ci, ei>>
    /\ pc' = "w_done"
    /\ UNCHANGED <<outer, args, locals, ai_calls, oracle_raised, succeeded>>

\* lines 256-266: the unpacking and what follows it
EvidenceUnpack ==
    /\ pc = "w_unpack"
    /\ verification' = unpack_and_judge(best_result)
    /\ pc' = "w_done"
    /\ UNCHANGED <<outer, args, locals, history>>

NextEvidence ==
    \/ EvidenceNotCurl
    \/ EvidenceRunReturns
    \/ EvidenceRunRaises
    \/ EvidenceUnpack

SpecEvidence == InitEvidence /\ [][NextEvidence]_vars

(***************************************************************************)
(* Properties of the success heuristic, checked under SpecHeuristic        *)
(***************************************************************************)
\* text holds one of the failure markers, in any case
HasMarker(text) ==
    \E k \in DOMAIN failure_words : contains(lower(text), failure_words[k])

\* text holds nothing but whitespace
IsBlank(text) == \A i \in DOMAIN text : IsSpace(text[i])

\* C13 as stated: success is TRUE exactly when the exit code is zero, stdout
\* is non-empty and neither stdout nor stderr holds a failure marker.
C13_SuccessIffNonEmptyOutput ==
    pc = "h_done" =>
        (best_result.success <=>
            /\ best_result.exit_code = 0
            /\ best_result.stdout # <<>>
            /\ ~HasMarker(best_result.stdout)
            /\ ~HasMarker(best_result.stderr))

\* C13 as amended: success is TRUE exactly when the exit code is zero, stdout
\* holds a character that is not whitespace, and neither stdout nor stderr
\* holds a failure marker in any case.
C13_SuccessIffVisibleOutput ==
    pc = "h_done" =>
        /\ best_result.success <=>
              /\ best_result.exit_code = 0
              /\ ~IsBlank(best_result.stdout)
              /\ ~HasMarker(best_result.stdout)
              /\ ~HasMarker(best_result.stderr)
        /\ verified = best_result.success

C13_Witness ==
    /\ pc = "h_done"
    /\ best_result.exit_code = 0
    /\ best_result.stdout = P_newline
    /\ best_result.stderr = <<>>
    /\ best_result.success = FALSE

(***************************************************************************)
(* Properties of extract_commands, checked under SpecMatch                 *)
(***************************************************************************)
L_GitHubPersonalToken == JoinWords(<<W_GitHub, W_Personal, W_Token>>)

L_PersonalGitHubToken == JoinWords(<<W_Personal, W_GitHub, W_Token>>)

\* the words GitHub, Token follow each other in ws
TitleInWords(ws) ==
    \E i \in 1..(Len(ws) - 1) : ws[i] = W_GitHub /\ ws[i + 1] = W_Token

\* C5 as stated: for the catalog section "## GitHub Token" with one fenced
\* curl template, the label "GitHub Personal Token" matches and yields
\* exactly that template.
C5_PersonalTokenMatches ==
    pc = "m_done" /\ md_text = GitHubDoc /\ secret_type = L_GitHubPersonalToken
        => commands = <<T_GITHUB>>

\* C5 as amended: the section matches exactly the labels whose normalized
\* form holds "githubtoken" as one piece, or is one piece of it. "Personal
\* GitHub Token" and "GitHub" yield exactly the one template; "GitHub
\* Personal Token" yields none.
C5_MatchIsContiguousContainment ==
    pc = "m_done" =>
        /\ secret_type = L_GitHubPersonalToken => commands = <<>>
        /\ secret_type = L_PersonalGitHubToken => commands = <<T_GITHUB>>
        /\ secret_type = W_GitHub => commands = <<T_GITHUB>>
        /\ \A ws \in WordSeqs :
              secret_type = JoinWords(ws) =>
                  /\ commands \in {<<>>, <<T_GITHUB>>}
                  /\ commands = <<T_GITHUB>> <=>
                        (TitleInWords(ws) \/ ws \in {<<W_GitHub>>, <<W_Token>>})

C5_Witness ==
    /\ pc = "m_done"
    /\ md_text = GitHubDoc
    /\ secret_type = L_PersonalGitHubToken
    /\ commands = <<T_GITHUB>>

(***************************************************************************)
(* Properties of _verify_secret_type, checked under SpecVerify             *)
(***************************************************************************)
Returned == verification # None

ReturnedNormally == Returned /\ "error" \notin DOMAIN verification

UsedTemplates == 1..Len(Take(commands, TemplateCap))

NTry == Len(Take(evidence_strings, EvidenceCap))

Last(seq) == seq[Len(seq)]

\* the evidence indices the verifier was asked about for template c
TriedOf(c) == {e \in 1..Len(evidence_strings) : <<c, e>> \in Range(ai_calls)}

\* the loop of template c has ended
TemplateDone(c) == ci > c \/ (ci = c /\ pc = "v_end_cmd") \/ pc = "v_done"

\* where the loop of template c stops: at its successful attempt, or at
\* the cap
StopAt(c) ==
    IF \E e \in 1..NTry : <<c, e>> \in succeeded
    THEN CHOOSE e \in 1..NTry : <<c, e>> \in succeeded
    ELSE NTry

\* C1: when the subprocess of a run_command call does not finish within its
\* timeout, the attempt is a non-success, the verification goes on (it does
\* not end in the error return), and no subprocess is running once the call
\* has returned.
C1_TimeoutLeavesNoProcess ==
    timed_out =>
        /\ ~cmd_verified
        /\ (Returned => "error" \notin DOMAIN verification)
        /\ proc # "running"

\* C4: in every SecretTypeVerification returned, on the normal path and on
\* the exception path, verified = TRUE implies attempted = TRUE.
C4_VerifiedImpliesAttempted ==
    /\ verified => attempted
    /\ Returned => (verification.verified => verification.attempted)

C4_Witness == Returned /\ verification.verified /\ Len(verification.results) = 2

\* C6: within one template the evidence values are tried strictly in bucket
\* order; after a successful attempt no further evidence value is tried for
\* that template (no verifier call, no run_command call); without a success
\* exactly the first min(5, n) values are tried; the next template is
\* processed whether or not an earlier one succeeded.
C6_EarlyExitPerTemplate ==
    /\ ai_calls # <<>> => ai_calls[1] = <<1, 1>>
    /\ \A k \in 1..(Len(ai_calls) - 1) :
          \/ ai_calls[k + 1] = <<ai_calls[k][1], ai_calls[k][2] + 1>>
          \/ ai_calls[k + 1] = <<ai_calls[k][1] + 1, 1>>
    /\ \A k \in DOMAIN run_calls : run_calls[k] \in Range(ai_calls)
    /\ \A c \in UsedTemplates :
          /\ \A e \in 1..NTry :
                <<c, e>> \in succeeded =>
                    \A e2 \in (e + 1)..Len(evidence_strings) :
                        <<c, e2>> \notin Range(ai_calls) \cup Range(run_calls)
          /\ TemplateDone(c) /\ (pc = "v_done" => ReturnedNormally)
                => TriedOf(c) = 1..StopAt(c)

C6_Witness ==
    /\ ReturnedNormally
    /\ Len(evidence_strings) > EvidenceCap
    /\ <<1, 2>> \in succeeded
    /\ TriedOf(2) = 1..EvidenceCap

\* C7: a VerifyGuidance call that raises is recorded as ai_status "ERROR"
\* with the exception text as ai_analysis and does not abort the attempt:
\* for a template with a recognized placeholder run_command is still called
\* for that evidence value, and the verification does not end in the error
\* return.
C7_OracleFailureIsAbsorbed ==
    oracle_raised =>
        /\ ai_status = "ERROR"
        /\ ai_analysis = "oracle unavailable"
        /\ Returned /\ NTry > 0 => "error" \notin DOMAIN verification
        /\ LET a == Last(ai_calls)
           IN  pc # "v_gate" /\ has_placeholder(commands[a[1]]) =>
                   /\ run_calls # <<>>
                   /\ Last(run_calls) = a
                   /\ a[2] = 1 =>
                         LET rec == IF ci = a[1] /\ pc # "v_cmd" THEN best_result
                                    ELSE results[a[1]]
                         IN  /\ rec.ai_status = "ERROR"
                             /\ rec.ai_analysis = "oracle unavailable"

C7_Witness ==
    /\ ReturnedNormally
    /\ Len(verification.results) = 2
    /\ verification.results[1].ai_status = "ERROR"
    /\ "exit_code" \in DOMAIN verification.results[1]
    /\ "exit_code" \in DOMAIN verification.results[2]

\* C8: a template among the first three without a recognized placeholder
\* never gets a run_command call, and the returned results hold an entry for
\* it with evidence_used "No token candidates found" and success FALSE.
C8_NoPlaceholderNoSubprocess ==
    /\ \A c \in UsedTemplates :
          ~has_placeholder(commands[c]) =>
              \A k \in DOMAIN run_calls : run_calls[k][1] # c
    /\ Returned =>
          \A c \in UsedTemplates :
              ~has_placeholder(commands[c]) =>
                  \E k \in DOMAIN verification.results :
                      /\ verification.results[k].command = commands[c]
                      /\ verification.results[k].evidence_used = S_NoTokenCandidates
                      /\ verification.results[k].success = FALSE

\* C9 as stated: attempted is true iff a template with a recognized
\* placeholder was used and a subprocess was actually started for it.
C9_AttemptedIffLaunched ==
    Returned => (verification.attempted <=> launched)

\* C9 as amended: attempted is true iff run_command was called, that is iff a
\* used template holds a recognized placeholder and the bucket holds an
\* evidence value; whether a subprocess was started does not matter.
C9_AttemptedIffRunCommandCalled ==
    /\ attempted <=> run_calls # <<>>
    /\ Returned =>
          /\ verification.attempted <=> run_calls # <<>>
          /\ verification.attempted <=>
                (NTry > 0 /\ \E c \in UsedTemplates : has_placeholder(commands[c]))

C9_Witness == Returned /\ verification.attempted /\ ~launched

\* C10: verified is true iff some executed attempt satisfied the success
\* heuristic, and iff the returned results hold an entry with success TRUE.
C10_VerifiedIffSuccessRecorded ==
    /\ verified <=> succeeded # {}
    /\ Returned =>
          /\ verification.verified <=> succeeded # {}
          /\ verification.verified <=>
                \E k \in DOMAIN verification.results :
                    verification.results[k].success

C10_Witness ==
    /\ Returned
    /\ verification.verified
    /\ \E c \in UsedTemplates : \E e \in 2..NTry : <<c, e>> \in succeeded

\* C11: a run_command call that raises is captured in the attempt's record
\* (error field, success FALSE) and aborts nothing: the next evidence value
\* of the template is tried, every used template is processed, and the call
\* returns normally with one record per used template.
C11_RunCommandFailureIsCaptured ==
    raised_at # <<0, 0>> =>
        LET c == raised_at[1]
            e == raised_at[2]
        IN  /\ Returned =>
                  /\ ReturnedNormally
                  /\ Len(verification.results) = Len(Take(commands, TemplateCap))
                  /\ \A c2 \in UsedTemplates : <<c2, 1>> \in Range(ai_calls)
            /\ e < NTry =>
                  \/ <<c, e + 1>> \in Range(ai_calls)
                  \/ ci = c /\ ei = e + 1 /\ pc = "v_ask"
            /\ e = 1 /\ (\A e2 \in 1..NTry : <<c, e2>> \notin succeeded) =>
                  LET rec == IF ci = c THEN best_result ELSE results[c]
                  IN  /\ "error" \in DOMAIN rec
                      /\ rec.success = FALSE
                      /\ rec.evidence_used = evidence_used_of(evidence_strings[1])

C11_Witness ==
    /\ ReturnedNormally
    /\ raised_at = <<1, 1>>
    /\ <<1, 2>> \in Range(run_calls)
    /\ Len(verification.results) = 2
    /\ "error" \in DOMAIN verification.results[1]

\* the records of results that stand for an executed pairing
AttemptRecords ==
    SelectSeq(verification.results,
              LAMBDA r : r.evidence_used # S_NoTokenCandidates)

\* C12 as stated: results holds one record for every (template, evidence)
\* pairing that was tried, in the order the pairings were tried.
C12_OneResultPerPairing ==
    ReturnedNormally =>
        /\ Len(AttemptRecords) = Len(run_calls)
        /\ \A k \in DOMAIN AttemptRecords :
              /\ AttemptRecords[k].command = commands[run_calls[k][1]]
              /\ AttemptRecords[k].evidence_used =
                    evidence_used_of(evidence_strings[run_calls[k][2]])

\* C12 as amended: results holds exactly one record per used template, in
\* template order: for a template with a recognized placeholder the record
\* of its successful attempt if it has one, else the record of its first
\* attempt; for a template without one the guidance record. The error return
\* holds no record.
C12_OneResultPerTemplate ==
    Returned =>
        IF "error" \in DOMAIN verification THEN verification.results = <<>>
        ELSE /\ Len(verification.results) = Len(Take(commands, TemplateCap))
             /\ \A c \in UsedTemplates :
                   LET rec == verification.results[c]
                       won == \E e \in 1..NTry : <<c, e>> \in succeeded
                       kept == IF won THEN StopAt(c) ELSE 1
                   IN  /\ rec.command = commands[c]
                       /\ rec.success = won
                       /\ rec.evidence_used =
                             IF has_placeholder(commands[c])
                             THEN evidence_used_of(evidence_strings[kept])
                             ELSE S_NoTokenCandidates

C12_Witness ==
    /\ ReturnedNormally
    /\ Len(verification.results) = 2
    /\ Len(run_calls) > 2
    /\ <<1, 2>> \in succeeded
    /\ verification.results[1].evidence_used = evidence_strings[2]

\* no pair occurs twice in calls
NoRepeat(calls) ==
    \A j, k \in DOMAIN calls : j # k => calls[j] # calls[k]

\* C14: at most the first 3 matched templates are used (commands and results
\* of length <= 3), at most the first 5 evidence values are tried for each,
\* so there are at most 15 run_command calls and at most 15 verifier calls.
C14_BreadthIsBounded ==
    /\ \A calls \in {ai_calls, run_calls} :
          /\ Len(calls) <= TemplateCap * EvidenceCap
          /\ NoRepeat(calls)
          /\ \A k \in DOMAIN calls :
                calls[k][1] \in 1..TemplateCap /\ calls[k][2] \in 1..EvidenceCap
    /\ Len(results) <= TemplateCap
    /\ Returned =>
          /\ Len(verification.commands) <= TemplateCap
          /\ Len(verification.results) <= TemplateCap

C14_Witness ==
    /\ ReturnedNormally
    /\ Len(commands) > TemplateCap
    /\ Len(evid_list) > EvidenceCap
    /\ Len(verification.commands) = TemplateCap
    /\ Len(verification.results) = TemplateCap
    /\ Len(ai_calls) = TemplateCap * EvidenceCap
    /\ Len(run_calls) = EvidenceCap

\* C20: the command run_command executes holds no recognized placeholder,
\* for every evidence value passed, the empty text included.
C20_NoPlaceholderIsLeft ==
    \A k \in DOMAIN run_calls :
        LET executed_cmd == substitute(commands[run_calls[k][1]],
                                       evidence_strings[run_calls[k][2]])
        IN  \A j \in DOMAIN replacements : ~contains(executed_cmd, replacements[j])

\* template c holds a spelling that run_command substitutes
HasSubstituted(c) == \E j \in DOMAIN replacements : contains(commands[c], replacements[j])

\* C25: the gate of _verify_secret_type and the substitution of run_command
\* agree: every used template holding a spelling that run_command
\* substitutes is passed to run_command when the bucket holds an evidence
\* value, a template whose only placeholder is $API_KEY included.
C25_GateAgreesWithSubstitution ==
    \A c \in UsedTemplates :
        HasSubstituted(c) /\ NTry > 0 /\ TemplateDone(c) /\ ReturnedNormally =>
            \E k \in DOMAIN run_calls : run_calls[k][1] = c

\* the first spelling of replacements that template holds
FirstSpelling(template) ==
    replacements[MinOf({j \in DOMAIN replacements : contains(template, replacements[j])})]

\* C26: for every non-empty token the executed command is the template with
\* its placeholder replaced by the token verbatim: text put in by one
\* replacement is not rewritten by a later one.
C26_SubstitutionIsExact ==
    \A k \in DOMAIN run_calls :
        LET template == commands[run_calls[k][1]]
            token == evidence_strings[run_calls[k][2]]
        IN  token # <<>> =>
                substitute(template, token)
                    = replace(template, FirstSpelling(template), token)

\* C28: for an empty evidence list and a secret type with catalog templates
\* _verify_secret_type returns normally: commands are the first
\* TemplateCap matched templates, attempted and verified are false and there
\* is no error entry.
C28_EmptyBucketReturnsNormally ==
    Returned /\ evid_list = <<>> /\ commands # <<>> =>
        /\ "error" \notin DOMAIN verification
        /\ verification.commands = Take(commands, TemplateCap)
        /\ ~verification.attempted
        /\ ~verification.verified

(***************************************************************************)
(* Properties of verify_secret_with_evidence, checked under SpecEvidence   *)
(***************************************************************************)
\* C23: when the evidence is a curl command whose execution exits with code
\* 0 and whose stderr holds none of the error markers, the call returns
\* success TRUE with the command's exit code, stdout and stderr; the failure
\* with exit code -1 is returned only when the evidence is no curl command
\* or the execution itself raised.
C23_CurlSuccessIsReported ==
    pc = "w_done" =>
        /\ (proc = "exited" /\ best_result[1] = 0
               /\ ~has_stderr_marker(best_result[3])) =>
              verification = evidence_return(TRUE, best_result[1], best_result[2],
                                             best_result[3])
        /\ (~verification.success /\ verification.exit_code = -1) =>
              (~is_curl(cmd) \/ raised_at # <<0, 0>>)

(***************************************************************************)
(* Properties of build_json_report, checked under Spec                     *)
(***************************************************************************)
\* C2: when the Classify call fails for one bucket the run is not aborted:
\* build_json_report does not end by raising.
C2_ClassifyFailureSkipsOneFinding ==
    raised = "classify" => pc # "r_raised"

\* C3: when the Remediate call fails the pipeline does not crash and the
\* finding carries the generic four-step remediation list.
C3_RemediateFallsBack ==
    /\ raised = "remediate" =>
          pc # "r_raised" /\ ai_remediation_steps = GenericRemediation
    /\ \A k \in DOMAIN findings :
          findings[k].remediation_steps \in {OracleSteps, GenericRemediation}

\* C17: when key_verifier.md cannot be read the run fails: build_json_report
\* builds no finding from the failed verification and goes on to no further
\* bucket and to no report.
C17_UnreadableCatalogIsFatal ==
    verification = error_return("OSError") =>
        pc \notin {"r_loop", "r_remediate", "r_verify", "r_done"}

(***************************************************************************)
(* Properties of the report, checked under SpecAggregate                   *)
(***************************************************************************)
RankOf(f) == highest_rank(f.severity)

\* the position of finding f in fs
PosIn(fs, f) == CHOOSE k \in DOMAIN fs : fs[k] = f

\* C15: overall_risk is the severity of highest rank among the findings, and
\* INFO when there are none.
C15_OverallRiskIsMaximum ==
    report # None =>
        IF report.findings = <<>> THEN report.overall_risk = "INFO"
        ELSE /\ \E k \in DOMAIN report.findings :
                   report.findings[k].severity = report.overall_risk
             /\ \A k \in DOMAIN report.findings :
                   RankOf(report.findings[k]) <= highest_rank(report.overall_risk)

C15_Witness ==
    /\ report # None
    /\ [k \in DOMAIN findings |-> findings[k].severity] = <<"HIGH", "CRITICAL", "LOW">>
    /\ report.overall_risk = "CRITICAL"

\* C16: the findings of the report are the findings built, by descending
\* rank; findings of equal rank keep the order in which their buckets were
\* iterated.
C16_SortedDescendingStable ==
    report # None =>
        LET out == report.findings
        IN  /\ Len(out) = Len(findings)
            /\ \A k \in DOMAIN findings : \E j \in DOMAIN out : out[j] = findings[k]
            /\ \A j \in 1..(Len(out) - 1) : RankOf(out[j]) >= RankOf(out[j + 1])
            /\ \A i, j \in DOMAIN findings :
                  i < j /\ RankOf(findings[i]) = RankOf(findings[j]) =>
                      PosIn(out, findings[i]) < PosIn(out, findings[j])

C16_Witness ==
    /\ report # None
    /\ [k \in DOMAIN findings |-> findings[k].severity] = <<"HIGH", "CRITICAL", "HIGH">>
    /\ report.findings = <<findings[2], findings[1], findings[3]>>

\* the tally of the summary for severity sev, 0 when the summary has none
TallyOf(sev) ==
    LET key == CASE sev = "CRITICAL" -> "critical_findings"
                 [] sev = "HIGH" -> "high_findings"
                 [] sev = "MEDIUM" -> "medium_findings"
                 [] sev = "LOW" -> "low_findings"
                 [] OTHER -> "info_findings"
    IN  IF key \in DOMAIN report.summary THEN report.summary[key] ELSE 0

\* C21: the summary holds one tally per severity level, each the number of
\* findings of that severity, so that the tallies sum to total_findings;
\* total_secret_types is the number of buckets and total_evidences the number
\* of evidence records over all buckets.
C21_TalliesCoverEverySeverity ==
    report # None =>
        /\ \A sev \in Severities : TallyOf(sev) = count_severity(findings, sev)
        /\ TallyOf("CRITICAL") + TallyOf("HIGH") + TallyOf("MEDIUM")
              + TallyOf("LOW") + TallyOf("INFO") = report.summary.total_findings
        /\ report.summary.total_secret_types = Len(secrets)
        /\ report.summary.total_evidences = total_evidences(secrets)

\* C22: for a bucket of any size, evidence_data of its finding is the whole
\* ordered list of the bucket's records and evidence the list of their
\* texts, of the bucket's length.
C22_EvidenceIsWholeBucket ==
    \A k \in DOMAIN findings :
        /\ findings[k].evidence_data = secrets[k][2]
        /\ findings[k].evidence
              = [i \in DOMAIN secrets[k][2] |-> secrets[k][2][i].evidence]

\* C27: within one report the finding ids are pairwise distinct: two
\* distinct buckets never yield the same id.
C27_FindingIdsAreDistinct ==
    report # None =>
        \A i, j \in DOMAIN report.findings :
            i # j => report.findings[i].id # report.findings[j].id

(***************************************************************************)
(* Properties of parse_secret_file, checked under SpecParse                *)
(***************************************************************************)
\* the lines read so far
LinesRead == 1..(line_no - 1)

HasArrow(raw) == contains(raw, S_arrow)

IsUrlLine(raw) == StartsWithAt(strip(raw), 1, S_url_prefix)

IsEvidenceLine(raw) == HasArrow(raw) /\ ~IsUrlLine(raw)

\* the trimmed text left of the first "->"
LabelOf(raw) == strip(Take(raw, find(raw, S_arrow, 1) - 1))

\* the trimmed text right of the first "->"
EvidenceOf(raw) == strip(Drop(raw, find(raw, S_arrow, 1) + 2))

TotalRecords == total_evidences(secrets)

\* the lines read that gave a record to the bucket named key, in file order
LinesOf(key) ==
    LET idx == {i \in LinesRead : IsEvidenceLine(dump[i]) /\ LabelOf(dump[i]) = key}
        RECURSIVE Sorted(_)
        Sorted(S) == IF S = {} THEN <<>>
                     ELSE <<MinOf(S)>> \o Sorted(S \ {MinOf(S)})
    IN  Sorted(idx)

\* C18 as stated: every line holding "->" gives exactly one record; the
\* number of records over all buckets is the number of lines holding "->".
C18_EveryArrowLineGivesARecord ==
    TotalRecords = Cardinality({i \in LinesRead : HasArrow(dump[i])})

\* C18 as amended: every line holding "->" that is not a URL line gives
\* exactly one record, appended to the bucket named by the trimmed text left
\* of the first "->", with the trimmed remainder as evidence; no other line
\* gives a record.
C18_EveryEvidenceLineGivesARecord ==
    /\ TotalRecords = Cardinality({i \in LinesRead : IsEvidenceLine(dump[i])})
    /\ \A i \in LinesRead :
          IsEvidenceLine(dump[i]) =>
              \E k \in DOMAIN secrets : secrets[k][1] = LabelOf(dump[i])
    /\ \A j, k \in DOMAIN secrets : j # k => secrets[j][1] # secrets[k][1]
    /\ \A k \in DOMAIN secrets :
          LET from == LinesOf(secrets[k][1])
          IN  /\ Len(secrets[k][2]) = Len(from)
              /\ \A n \in DOMAIN from :
                    secrets[k][2][n].evidence = EvidenceOf(dump[from[n]])

C18_Witness ==
    /\ pc = "p_done"
    /\ dump = <<D_GIT, D_URL2, D_AWS2>>
    /\ TotalRecords = 2

\* the url in force at line i: the text of the last URL line before it
UrlBefore(i) ==
    LET us == {j \in 1..(i - 1) : IsUrlLine(dump[j])}
    IN  IF us = {} THEN S_Unknown
        ELSE LET raw == strip(dump[MaxOf(us)])
             IN  strip(Drop(raw, Len(S_url_prefix) + 1))

\* C19: the url of every record is the text of the most recent URL line
\* before its evidence line, Unknown when there is none; URL lines read later
\* leave it as it is.
C19_UrlIsMostRecentUrlLine ==
    \A k \in DOMAIN secrets :
        LET from == LinesOf(secrets[k][1])
        IN  \A n \in DOMAIN secrets[k][2] :
                n \in DOMAIN from /\ secrets[k][2][n].url = UrlBefore(from[n])

C19_Witness ==
    /\ pc = "p_done"
    /\ dump = <<D_URL1, D_AWS, D_URL2>>
    /\ secrets[1][2][1].url = url_of_line(D_URL1)
    /\ current_url = url_of_line(D_URL2)
(***************************************************************************)
(* Properties of run_complete_exposure_analysis, checked under SpecPipeline *)
(***************************************************************************)
\* parse_secret_file has read the whole dump of this run
DumpParsed == pc \notin {"x_start", "x_classify", "p_loop"} /\ dump # <<>>

\* all the records parsed, bucket after bucket
RECURSIVE AllRecords(_)
AllRecords(items) ==
    IF items = <<>> THEN <<>> ELSE items[1][2] \o AllRecords(Tail(items))

\* C24: parsing the file written by create_secret_dump yields exactly one
\* EvidenceRecord per secret, whose url is the URL of the JavaScript file the
\* secret came from.
C24_DumpRoundTrip ==
    DumpParsed =>
        /\ TotalRecords = Len(all_secrets)
        /\ \A i \in DOMAIN all_secrets :
              \E k \in DOMAIN AllRecords(secrets) :
                  AllRecords(secrets)[k].url = all_secrets[i].file

\* C29: when run_complete_exposure_analysis has returned, sys.argv is what
\* it was before the call, also when the classifier raised and the basic
\* report was written.
C29_ArgvIsRestored ==
    result # Pending => sys_argv = OriginalArgv

\* C30: every report path of a returned result dictionary names a file
\* written during the run, also on the fallback path and when the PDF
\* generation failed inside the classifier.
C30_ReportPathsAreWritten ==
    result \notin {Pending, None} =>
        {result.json_report, result.markdown_report, result.pdf_report} \subseteq files

====
